---- MODULE Spec2Model ----
(***************************************************************************)
(* Model of aperture's DeviceProvider (aperture/src/device_provider.rs):   *)
(* the process-wide latch STARTED, the tracked camera list, the bus watch, *)
(* the stored file descriptor and the notifications the provider emits.    *)
(* Rust positions are 0-based; TLA+ sequences are 1-based, so an entry at  *)
(* TLA+ index i is reported at position i - 1.                             *)
(***************************************************************************)
EXTENDS Integers, Sequences, FiniteSets, TLC

VARIABLES
    inner,          \* imp.inner: TRUE iff the OnceCell holds a gst::DeviceProvider
    hasFdProperty,  \* backend: has_property("fd", RawFd)
    devices,        \* backend: what provider.devices() returns, in backend order
    backendStarts,  \* backend: number of calls of provider.start()
    backendRunning, \* backend: provider.is_started()
    backendFd,      \* backend: value of its "fd" property (-1: never set)
    STARTED,        \* static STARTED: Once, TRUE iff is_completed()
    cameras,        \* imp.cameras: Vec<Camera>
    bus_watch,      \* imp.bus_watch: TRUE iff the OnceCell holds a BusWatchGuard
    watchAdds,      \* number of calls of bus.add_watch_local
    fd,             \* imp.fd: Option<OwnedFd>, 0 is None
    openFds,        \* descriptors that are open (not yet dropped)
    nextFd,         \* the next descriptor number the caller will obtain
    default_cb,     \* imp.default_cb: OnceCell, NoSelector when empty
    notifs,         \* every notification emitted so far, in emission order
    ret,            \* the last operation and what it returned
    handled,        \* number of bus messages delivered to the watch callback
    calls,          \* number of start / set_fd calls made
    panicked,       \* TRUE once an unwrap() of the provider has panicked
    owner,          \* SINGLETON: the thread recorded by ThreadGuard::new, or NoThread
    refs,           \* the threads instance() has handed a reference to
    instanceCalls,  \* the threads that have called instance()
    seen,           \* for each entry of notifs, the camera list its handlers observe
    teardown,       \* the backend calls made by the provider's teardown, in order
    connected,      \* TRUE once the consumer view is connected to items-changed
    stack,          \* widgets::Camera: the visible page of imp.stack
    chooser,        \* widgets::Camera: the visible child of camera_menu_button_stack
    spinner,        \* widgets::Camera: TRUE while imp.spinner is spinning
    portal,         \* the descriptor request of the startup task
    timeout         \* the provider timeout of Camera::start

vars == <<inner, hasFdProperty, devices, backendStarts, backendRunning, backendFd,
          STARTED, cameras, bus_watch, watchAdds, fd, openFds, nextFd, default_cb,
          notifs, ret, handled, calls, panicked, owner, refs, instanceCalls,
          seen, teardown, connected, stack, chooser, spinner, portal, timeout>>

threadVars == <<owner, refs, instanceCalls>>

\* the state no operation of the provider assigns
outsideVars == <<teardown, connected, portal, timeout>>

----------------------------------------------------------------------------
(* Bounds *)

NumDevices == 4
MaxSnapshot == 2
MaxMsgs == 2
MaxCalls == 3
NumThreads == 2

----------------------------------------------------------------------------
(* The backend's devices (gst::Device objects) *)

Devices == 1..NumDevices

\* the payload of a message whose structure holds no "device" field
NoDevice == 0

\* gst::Device::device_class() of the devices of the universe
DeviceClass(d) == IF d % 3 = 0 THEN "Audio/Source" ELSE "Video/Source"

\* utils::caps::is_infrared applied to the device's caps
is_infrared(d) == d % 4 = 2

\* Camera::target_object(): the target-object reference of a device; two
\* devices are the same device iff their target-object references are equal
TargetObject(d) == 100 + d

\* crate::Camera::new(&device)
Camera_new(d) == [device |-> d, target_object |-> TargetObject(d)]

\* Camera::device()
device(c) == c.device

\* Camera::target_object()
target_object(c) == c.target_object

NoCamera == [device |-> NoDevice, target_object |-> 0]

\* sequences of pairwise distinct elements of S, of length at most n
RECURSIVE DistinctSeqs(_, _)
DistinctSeqs(S, n) ==
    IF n = 0 THEN {<<>>}
    ELSE LET shorter == DistinctSeqs(S, n - 1)
         IN  shorter \cup
             {Append(p[1], p[2]) :
                 p \in {q \in shorter \X S :
                          /\ Len(q[1]) = n - 1
                          /\ \A i \in 1..Len(q[1]) : q[1][i] # q[2]}}

\* gst::DeviceProvider::devices(): a list of distinct device objects
Snapshots == DistinctSeqs(Devices, MaxSnapshot)

----------------------------------------------------------------------------
(* Notifications and return values *)

\* gio::ListModel items_changed(position, removed, added)
items_changed(pos, removed, added) ==
    [kind |-> "items_changed", pos |-> pos, removed |-> removed,
     added |-> added, camera |-> NoCamera]

\* emit_camera_added(&camera)
emit_camera_added(c) ==
    [kind |-> "camera_added", pos |-> 0, removed |-> 0, added |-> 0, camera |-> c]

\* emit_camera_removed(&camera)
emit_camera_removed(c) ==
    [kind |-> "camera_removed", pos |-> 0, removed |-> 0, added |-> 0, camera |-> c]

\* notify_started(): the "started" property notification
notify_started ==
    [kind |-> "notify_started", pos |-> 0, removed |-> 0, added |-> 0,
     camera |-> NoCamera]

\* a message on the backend's bus: its kind and the device in its structure
Msg(kind, d) == [kind |-> kind, dev |-> d]
NoMsg == Msg("none", NoDevice)
Messages ==
    {Msg("Error", NoDevice), Msg("Other", NoDevice)} \cup
    {Msg(k, d) : k \in {"DeviceAdded", "DeviceRemoved"}, d \in Devices \cup {NoDevice}}

\* what an operation returned to its caller (for the watch callback: the
\* glib::ControlFlow it returned and the message it was called with)
Returned(op, res) == [op |-> op, res |-> res, msg |-> NoMsg, cam |-> NoCamera]
Handled(msg) ==
    [op |-> "handle_message", res |-> "Continue", msg |-> msg, cam |-> NoCamera]

\* what default_camera() returned: Some(camera), or None as NoCamera
Queried(c) ==
    [op |-> "default_camera", res |-> IF c = NoCamera THEN "None" ELSE "Some",
     msg |-> NoMsg, cam |-> c]

\* the threads of the process; NoThread while SINGLETON is not yet initialized
Threads == 1..NumThreads
NoThread == 0

\* the default-selector closures a caller passes: the set of devices the
\* closure answers true for; start() passes |_| false
AlwaysFalse == {}
Selectors == {AlwaysFalse, {d \in Devices : d > 1}}
NoSelector == {NoDevice}

----------------------------------------------------------------------------
(* Helpers of imp::DeviceProvider *)

\* STARTED.is_completed()
IsCompletedNever == FALSE
is_completed == STARTED

\* ListModelImpl::n_items
n_items == Len(cameras)

\* imp::DeviceProvider::has_camera
has_camera_never(camera) == FALSE
has_camera(camera) ==
    \E i \in 1..Len(cameras) : device(cameras[i]) = device(camera)

\* the filter of the snapshot: d.device_class() == "Video/Source"
snapshot_filter_all(d) == TRUE
snapshot_filter(d) == DeviceClass(d) = "Video/Source"

\* the smallest element of a set of indices, or 0 when there is none
FirstOf(I) == IF I = {} THEN 0 ELSE CHOOSE i \in I : \A j \in I : i <= j

\* remove: the first (1-based) index whose target_object() is that of dev, or 0
position_by_target(dev) ==
    FirstOf({i \in 1..Len(cameras) : target_object(cameras[i]) = target_object(dev)})

\* handle_message: the first (1-based) index n whose camera's device() is d, or 0
position_by_device(d) ==
    FirstOf({i \in 1..Len(cameras) : d = device(cameras[i])})

\* Vec::remove(pos) at the 1-based index i
RemoveAt(s, i) == SubSeq(s, 1, i - 1) \o SubSeq(s, i + 1, Len(s))


\* what a signal handler running during a notification finds when it reads the
\* list: the Vec at that moment, and whether the RefCell is mutably borrowed
Observed(list) == [list |-> list, borrowed |-> FALSE]

\* widgets::Camera::update_cameras, the child of camera_menu_button_stack
camera_menu_button_stack_from_one(n_cameras) ==
    CASE n_cameras = 0 -> "fake-widget"
      [] n_cameras \in {1, 2} -> "camera_switch_button"
      [] OTHER -> "camera_menu_button"
camera_menu_button_stack(n_cameras) ==
    CASE n_cameras \in {0, 1} -> "fake-widget"
      [] n_cameras = 2 -> "camera_switch_button"
      [] OTHER -> "camera_menu_button"

\* widgets::Camera::update_cameras with provider.n_items() = n_cameras
update_cameras(n_cameras) ==
    /\ spinner' = FALSE
    /\ stack' = IF n_cameras = 0 THEN "not-found" ELSE "camera"
    /\ chooser' = camera_menu_button_stack(n_cameras)

\* the items-changed handler the consumer view connected in constructed():
\* it runs inside every items_changed of the step and reads n_items() then
items_changed_handlers ==
    LET new == {k \in (Len(notifs) + 1)..Len(notifs') :
                    notifs'[k].kind = "items_changed"}
    IN  IF connected /\ new # {}
        THEN LET last == CHOOSE k \in new : \A j \in new : j <= k
             IN  update_cameras(Len(seen'[last].list))
        ELSE UNCHANGED <<stack, chooser, spinner>>

\* imp::DeviceProvider::append
append_front(camera) ==
    /\ cameras' = <<camera>> \o cameras
    /\ seen' = seen \o <<Observed(<<camera>> \o cameras), Observed(<<camera>> \o cameras)>>
    /\ notifs' = notifs \o <<items_changed(Len(cameras), 0, 1),
                             emit_camera_added(camera)>>
append_twice_notified(camera) ==
    /\ cameras' = Append(cameras, camera)
    /\ seen' = seen \o <<Observed(Append(cameras, camera)),
                         Observed(Append(cameras, camera)),
                         Observed(Append(cameras, camera))>>
    /\ notifs' = notifs \o <<items_changed(Len(cameras), 0, 1),
                             items_changed(Len(cameras), 0, 1),
                             emit_camera_added(camera)>>
append_notifies_first(camera) ==
    /\ cameras' = Append(cameras, camera)
    /\ notifs' = notifs \o <<items_changed(Len(cameras), 0, 1),
                             emit_camera_added(camera)>>
    /\ seen' = seen \o <<Observed(cameras), Observed(Append(cameras, camera))>>
append(camera) ==
    LET pos == Len(cameras)
        pushed == Append(cameras, camera)
    IN  /\ cameras' = pushed
        /\ notifs' = notifs \o <<items_changed(pos, 0, 1), emit_camera_added(camera)>>
        /\ seen' = seen \o <<Observed(pushed), Observed(pushed)>>

\* imp::DeviceProvider::remove
remove_last(dev) ==
    /\ cameras' = SubSeq(cameras, 1, Len(cameras) - 1)
    /\ seen' = seen \o <<Observed(SubSeq(cameras, 1, Len(cameras) - 1)),
                         Observed(SubSeq(cameras, 1, Len(cameras) - 1))>>
    /\ notifs' = notifs \o <<items_changed(Len(cameras) - 1, 1, 0),
                             emit_camera_removed(dev)>>
remove(dev) ==
    LET i == position_by_target(dev)
    IN  IF i = 0
        THEN \* log::error!, return
             UNCHANGED <<cameras, notifs, seen>>
        ELSE /\ cameras' = RemoveAt(cameras, i)
             /\ notifs' = notifs \o <<items_changed(i - 1, 1, 0),
                                      emit_camera_removed(dev)>>
             /\ seen' = seen \o <<Observed(RemoveAt(cameras, i)),
                                  Observed(RemoveAt(cameras, i))>>

----------------------------------------------------------------------------
(* Operations *)

Init ==
    /\ inner \in BOOLEAN
    /\ hasFdProperty \in BOOLEAN
    /\ inner = FALSE => hasFdProperty = FALSE
    /\ devices \in Snapshots
    /\ inner = FALSE => devices = <<>>
    /\ backendStarts = 0
    /\ backendRunning = FALSE
    /\ backendFd = -1
    /\ STARTED = FALSE
    /\ cameras = <<>>
    /\ bus_watch = FALSE
    /\ watchAdds = 0
    /\ fd = 0
    /\ openFds = {}
    /\ nextFd = 1
    /\ default_cb = NoSelector
    /\ notifs = <<>>
    /\ ret = Returned("none", "none")
    /\ handled = 0
    /\ calls = 0
    /\ panicked = FALSE
    /\ owner = NoThread
    /\ refs = {}
    /\ instanceCalls = {}
    /\ seen = <<>>
    /\ teardown = <<>>
    /\ connected = FALSE
    /\ stack = "none"
    /\ chooser = "none"
    /\ spinner = FALSE
    /\ portal = "none"
    /\ timeout = "none"

\* the part of start_with_default after provider.start() succeeded
\* (device_provider.rs lines 207-241)
startup_no_replace(f) ==
    /\ backendRunning' = TRUE
    /\ cameras' = cameras
    /\ notifs' = notifs \o <<items_changed(0, 0, Len(SelectSeq(devices, snapshot_filter))),
                             notify_started>>
    /\ seen' = seen \o <<Observed(cameras), Observed(cameras)>>
    /\ watchAdds' = watchAdds + 1
    /\ bus_watch' = TRUE
    /\ default_cb' = f
    /\ ret' = Returned("start", "Ok")
    /\ UNCHANGED panicked
startup(f) ==
    LET snapshot == SelectSeq(devices, snapshot_filter)
        list == [i \in 1..Len(snapshot) |-> Camera_new(snapshot[i])]
        n == Len(list)
    IN  /\ backendRunning' = TRUE
        /\ cameras' = list
        /\ watchAdds' = watchAdds + 1
        /\ IF bus_watch
           THEN \* imp.bus_watch.set(watch).unwrap() panics
                /\ notifs' = notifs \o <<items_changed(0, 0, n)>>
                /\ seen' = Append(seen, Observed(list))
                /\ panicked' = TRUE
                /\ ret' = Returned("start", "panic")
                /\ UNCHANGED <<bus_watch, default_cb>>
           ELSE /\ notifs' = notifs \o <<items_changed(0, 0, n), notify_started>>
                /\ seen' = seen \o <<Observed(list), Observed(list)>>
                /\ bus_watch' = TRUE
                /\ default_cb' = IF default_cb = NoSelector THEN f ELSE default_cb
                /\ ret' = Returned("start", "Ok")
                /\ UNCHANGED panicked

\* DeviceProvider::start_with_default
start_with_default_no_plugin_check(f) ==
    /\ ~panicked
    /\ calls < MaxCalls
    /\ calls' = calls + 1
    /\ UNCHANGED <<inner, hasFdProperty, devices, backendFd, fd, openFds, nextFd,
                   handled>>
    /\ UNCHANGED threadVars
    /\ IF is_completed
       THEN /\ ret' = Returned("start", "Ok")
            /\ UNCHANGED <<backendStarts, backendRunning, STARTED, cameras,
                           bus_watch, watchAdds, default_cb, notifs, seen, panicked>>
       ELSE /\ STARTED' = TRUE
            /\ backendStarts' = backendStarts + 1
            /\ \E ok \in BOOLEAN :
                  IF ok
                  THEN startup(f)
                  ELSE /\ ret' = Returned("start", "BackendError")
                       /\ cameras' = <<>>
                       /\ notifs' = notifs \o <<items_changed(0, 0, 0)>>
                       /\ seen' = Append(seen, Observed(<<>>))
                       /\ UNCHANGED <<backendRunning, bus_watch, watchAdds,
                                      default_cb, panicked>>
    /\ teardown = <<>>
    /\ UNCHANGED outsideVars
    /\ items_changed_handlers
start_with_default_renotifies(f) ==
    /\ ~panicked
    /\ calls < MaxCalls
    /\ calls' = calls + 1
    /\ UNCHANGED <<inner, hasFdProperty, devices, backendFd, fd, openFds, nextFd,
                   handled>>
    /\ UNCHANGED threadVars
    /\ IF is_completed
       THEN /\ ret' = Returned("start", "Ok")
            /\ notifs' = notifs \o <<notify_started>>
            /\ seen' = Append(seen, Observed(cameras))
            /\ UNCHANGED <<backendStarts, backendRunning, STARTED, cameras,
                           bus_watch, watchAdds, default_cb, panicked>>
       ELSE /\ STARTED' = TRUE
            /\ IF ~inner
               THEN /\ ret' = Returned("start", "MissingPlugin")
                    /\ UNCHANGED <<backendStarts, backendRunning, cameras, bus_watch,
                                   watchAdds, default_cb, notifs, seen, panicked>>
               ELSE /\ backendStarts' = backendStarts + 1
                    /\ \E ok \in BOOLEAN :
                          IF ok
                          THEN startup(f)
                          ELSE /\ ret' = Returned("start", "BackendError")
                               /\ UNCHANGED <<backendRunning, cameras, bus_watch,
                                              watchAdds, default_cb, notifs, seen, panicked>>
    /\ teardown = <<>>
    /\ UNCHANGED outsideVars
    /\ items_changed_handlers
start_with_default_overwrites(f) ==
    /\ ~panicked
    /\ calls < MaxCalls
    /\ calls' = calls + 1
    /\ UNCHANGED <<inner, hasFdProperty, devices, backendFd, fd, openFds, nextFd,
                   handled>>
    /\ UNCHANGED threadVars
    /\ IF is_completed
       THEN /\ ret' = Returned("start", "Ok")
            /\ default_cb' = f
            /\ UNCHANGED <<backendStarts, backendRunning, STARTED, cameras,
                           bus_watch, watchAdds, notifs, seen, panicked>>
       ELSE /\ STARTED' = TRUE
            /\ IF ~inner
               THEN /\ ret' = Returned("start", "MissingPlugin")
                    /\ UNCHANGED <<backendStarts, backendRunning, cameras, bus_watch,
                                   watchAdds, default_cb, notifs, seen, panicked>>
               ELSE /\ backendStarts' = backendStarts + 1
                    /\ \E ok \in BOOLEAN :
                          IF ok
                          THEN startup(f)
                          ELSE /\ ret' = Returned("start", "BackendError")
                               /\ UNCHANGED <<backendRunning, cameras, bus_watch,
                                              watchAdds, default_cb, notifs, seen, panicked>>
    /\ teardown = <<>>
    /\ UNCHANGED outsideVars
    /\ items_changed_handlers
start_with_default(f) ==
    /\ ~panicked
    /\ calls < MaxCalls
    /\ calls' = calls + 1
    /\ UNCHANGED <<inner, hasFdProperty, devices, backendFd, fd, openFds, nextFd,
                   handled>>
    /\ UNCHANGED threadVars
    /\ IF is_completed
       THEN /\ ret' = Returned("start", "Ok")
            /\ UNCHANGED <<backendStarts, backendRunning, STARTED, cameras,
                           bus_watch, watchAdds, default_cb, notifs, seen, panicked>>
       ELSE \* STARTED.call_once(|| ())
            /\ STARTED' = TRUE
            /\ IF ~inner
               THEN /\ ret' = Returned("start", "MissingPlugin")
                    /\ UNCHANGED <<backendStarts, backendRunning, cameras, bus_watch,
                                   watchAdds, default_cb, notifs, seen, panicked>>
               ELSE /\ backendStarts' = backendStarts + 1
                    /\ \E ok \in BOOLEAN :
                          IF ok
                          THEN startup(f)
                          ELSE \* provider.start()? returns the backend's error
                               /\ ret' = Returned("start", "BackendError")
                               /\ UNCHANGED <<backendRunning, cameras, bus_watch,
                                              watchAdds, default_cb, notifs, seen, panicked>>
    /\ teardown = <<>>
    /\ UNCHANGED outsideVars
    /\ items_changed_handlers

\* DeviceProvider::start
Start == start_with_default(AlwaysFalse)

StartWithDefault == \E f \in Selectors \ {AlwaysFalse} : start_with_default(f)

\* DeviceProvider::set_fd, called with a descriptor n the caller has just obtained;
\* the OwnedFd is moved into the call and is dropped (closed) on every path
\* that does not store it
set_fd_unguarded(n) ==
    /\ backendFd' = n
    /\ fd' = n
    /\ openFds' = (openFds \ {fd}) \cup {n}
    /\ ret' = Returned("set_fd", "Ok")
    /\ UNCHANGED panicked
set_fd_old_version_stores(n) ==
    IF is_completed
    THEN /\ ret' = Returned("set_fd", "ProvidedStarted")
         /\ UNCHANGED <<backendFd, fd, openFds, panicked>>
    ELSE IF ~inner
    THEN /\ panicked' = TRUE
         /\ ret' = Returned("set_fd", "panic")
         /\ UNCHANGED <<backendFd, fd, openFds>>
    ELSE /\ fd' = n
         /\ openFds' = (openFds \ {fd}) \cup {n}
         /\ backendFd' = IF hasFdProperty THEN n ELSE backendFd
         /\ ret' = Returned("set_fd", IF hasFdProperty THEN "Ok" ELSE "OldVersion")
         /\ UNCHANGED panicked
set_fd_leaks_old(n) ==
    IF is_completed
    THEN /\ ret' = Returned("set_fd", "ProvidedStarted")
         /\ UNCHANGED <<backendFd, fd, openFds, panicked>>
    ELSE IF ~inner
    THEN /\ panicked' = TRUE
         /\ ret' = Returned("set_fd", "panic")
         /\ UNCHANGED <<backendFd, fd, openFds>>
    ELSE IF hasFdProperty
    THEN /\ backendFd' = n
         /\ fd' = n
         /\ openFds' = openFds \cup {n}
         /\ ret' = Returned("set_fd", "Ok")
         /\ UNCHANGED panicked
    ELSE /\ ret' = Returned("set_fd", "OldVersion")
         /\ UNCHANGED <<backendFd, fd, openFds, panicked>>
set_fd(n) ==
    IF is_completed
    THEN /\ ret' = Returned("set_fd", "ProvidedStarted")
         /\ UNCHANGED <<backendFd, fd, openFds, panicked>>
    ELSE IF ~inner
    THEN \* self.imp().inner.get().unwrap() panics
         /\ panicked' = TRUE
         /\ ret' = Returned("set_fd", "panic")
         /\ UNCHANGED <<backendFd, fd, openFds>>
    ELSE IF hasFdProperty
    THEN /\ backendFd' = n
         /\ fd' = n
         /\ openFds' = (openFds \ {fd}) \cup {n}
         /\ ret' = Returned("set_fd", "Ok")
         /\ UNCHANGED panicked
    ELSE /\ ret' = Returned("set_fd", "OldVersion")
         /\ UNCHANGED <<backendFd, fd, openFds, panicked>>

SetFd ==
    /\ ~panicked
    /\ calls < MaxCalls
    /\ calls' = calls + 1
    /\ nextFd' = nextFd + 1
    /\ set_fd(nextFd)
    /\ UNCHANGED <<inner, hasFdProperty, devices, backendStarts, backendRunning,
                   STARTED, cameras, bus_watch, watchAdds, default_cb, notifs,
                   seen, handled>>
    /\ UNCHANGED threadVars
    /\ teardown = <<>>
    /\ UNCHANGED outsideVars
    /\ items_changed_handlers

\* DeviceProvider::handle_message, the DeviceAdded arm
device_added_no_ir_filter(d) ==
    IF d # NoDevice /\ DeviceClass(d) = "Video/Source" /\ ~has_camera(Camera_new(d))
    THEN append(Camera_new(d))
    ELSE UNCHANGED <<cameras, notifs, seen>>
device_added(d) ==
    IF d # NoDevice /\ DeviceClass(d) = "Video/Source"
    THEN LET camera == Camera_new(d)
         IN  IF ~has_camera(camera)
             THEN IF is_infrared(d)
                  THEN \* We ignore/filter IR cameras.
                       UNCHANGED <<cameras, notifs, seen>>
                  ELSE append(camera)
             ELSE UNCHANGED <<cameras, notifs, seen>>
    ELSE UNCHANGED <<cameras, notifs, seen>>

\* DeviceProvider::handle_message, the DeviceRemoved arm
device_removed_by_class(d) ==
    IF d # NoDevice /\ DeviceClass(d) = "Video/Source" /\ cameras # <<>>
    THEN remove(cameras[1])
    ELSE UNCHANGED <<cameras, notifs, seen>>
device_removed(d) ==
    IF d # NoDevice /\ DeviceClass(d) = "Video/Source"
    THEN LET n == position_by_device(d)
         IN  IF n # 0
             THEN remove(cameras[n])
             ELSE UNCHANGED <<cameras, notifs, seen>>
    ELSE UNCHANGED <<cameras, notifs, seen>>

\* DeviceProvider::handle_message
handle_message(msg) ==
    CASE msg.kind = "Error" -> UNCHANGED <<cameras, notifs, seen>>
      [] msg.kind = "DeviceAdded" -> device_added(msg.dev)
      [] msg.kind = "DeviceRemoved" -> device_removed(msg.dev)
      [] OTHER -> UNCHANGED <<cameras, notifs, seen>>

\* the bus watch callback of start_with_default: one message, then Continue
BusWatchUnregistered ==
    /\ ~panicked
    /\ handled < MaxMsgs
    /\ \E msg \in Messages :
          /\ handle_message(msg)
          /\ ret' = Handled(msg)
    /\ handled' = handled + 1
    /\ UNCHANGED <<inner, hasFdProperty, devices, backendStarts, backendRunning,
                   backendFd, STARTED, bus_watch, watchAdds, fd, openFds, nextFd,
                   default_cb, calls, panicked>>
    /\ UNCHANGED threadVars
    /\ teardown = <<>>
    /\ UNCHANGED outsideVars
    /\ items_changed_handlers
BusWatch ==
    /\ ~panicked
    /\ bus_watch
    /\ handled < MaxMsgs
    /\ \E msg \in Messages :
          /\ handle_message(msg)
          /\ ret' = Handled(msg)
    /\ handled' = handled + 1
    /\ UNCHANGED <<inner, hasFdProperty, devices, backendStarts, backendRunning,
                   backendFd, STARTED, bus_watch, watchAdds, fd, openFds, nextFd,
                   default_cb, calls, panicked>>
    /\ UNCHANGED threadVars
    /\ teardown = <<>>
    /\ UNCHANGED outsideVars
    /\ items_changed_handlers

\* DeviceProvider::default_camera
default_camera_last ==
    LET matching == {i \in 1..Len(cameras) : device(cameras[i]) \in default_cb}
    IN  IF default_cb = NoSelector \/ matching = {}
        THEN NoCamera
        ELSE cameras[CHOOSE i \in matching : \A j \in matching : j <= i]
default_camera ==
    IF default_cb = NoSelector
    THEN NoCamera
    ELSE LET matching == {i \in 1..Len(cameras) : device(cameras[i]) \in default_cb}
         IN  IF matching = {} THEN NoCamera ELSE cameras[FirstOf(matching)]

\* a consumer calls default_camera()
DefaultCamera ==
    /\ ~panicked
    /\ ret' = Queried(default_camera)
    /\ UNCHANGED <<inner, hasFdProperty, devices, backendStarts, backendRunning,
                   backendFd, STARTED, cameras, bus_watch, watchAdds, fd, openFds,
                   nextFd, default_cb, notifs, seen, handled, calls, panicked>>
    /\ UNCHANGED threadVars
    /\ teardown = <<>>
    /\ UNCHANGED outsideVars
    /\ items_changed_handlers

\* DeviceProvider::instance called on thread t: the Lazy is initialized by the
\* first caller, ThreadGuard::get_ref panics on any thread but the recorded one
instance_unguarded(t) ==
    /\ instanceCalls' = instanceCalls \cup {t}
    /\ owner' = IF owner = NoThread THEN t ELSE owner
    /\ refs' = refs \cup {t}
    /\ ret' = Returned("instance", "Ref")
instance(t) ==
    /\ instanceCalls' = instanceCalls \cup {t}
    /\ IF owner = NoThread
       THEN \* Lazy::new runs ThreadGuard::new on this thread
            /\ owner' = t
            /\ refs' = refs \cup {t}
            /\ ret' = Returned("instance", "Ref")
       ELSE IF owner = t
       THEN /\ refs' = refs \cup {t}
            /\ ret' = Returned("instance", "Ref")
            /\ UNCHANGED owner
       ELSE \* get_ref panics in thread t
            /\ ret' = Returned("instance", "panic")
            /\ UNCHANGED <<owner, refs>>

Instance ==
    /\ \E t \in Threads : instance(t)
    /\ UNCHANGED <<inner, hasFdProperty, devices, backendStarts, backendRunning,
                   backendFd, STARTED, cameras, bus_watch, watchAdds, fd, openFds,
                   nextFd, default_cb, notifs, seen, handled, calls, panicked>>
    /\ teardown = <<>>
    /\ UNCHANGED outsideVars
    /\ items_changed_handlers

\* start and set_fd called through the reference instance() returned
OwnerStart == owner \in refs /\ Start
OwnerSetFd == owner \in refs /\ SetFd

Next == Start \/ StartWithDefault \/ SetFd \/ BusWatch

Spec == Init /\ [][Next]_vars

\* the provider together with the consumers' default_camera() queries
NextQuery == Next \/ DefaultCamera

SpecQuery == Init /\ [][NextQuery]_vars

\* the threads of the process obtaining the singleton and using it
NextThreads == Instance \/ OwnerStart \/ OwnerSetFd

SpecThreads == Init /\ [][NextThreads]_vars

----------------------------------------------------------------------------
(* Teardown of the provider *)

\* the fields of imp::DeviceProvider, the backend and the callers' bookkeeping
providerVars == <<inner, hasFdProperty, devices, backendStarts, backendRunning,
                  backendFd, STARTED, cameras, bus_watch, watchAdds, fd, openFds,
                  nextFd, default_cb, notifs, ret, handled, calls, panicked,
                  owner, refs, instanceCalls, seen>>

\* imp::DeviceProvider::dispose, followed by the drop of the instance struct,
\* which releases the backend handle; teardown records the calls made on the
\* backend, "panic" where an unwrap() or set_property() panics
DisposeWithoutStop ==
    /\ teardown = <<>>
    /\ ~panicked
    /\ IF ~inner
       THEN /\ teardown' = <<"panic">>
            /\ panicked' = TRUE
            /\ ret' = Returned("dispose", "panic")
            /\ UNCHANGED <<backendRunning, backendFd>>
       ELSE IF hasFdProperty
       THEN /\ backendFd' = -1
            /\ teardown' = <<"set_fd", "finalize">>
            /\ ret' = Returned("dispose", "Ok")
            /\ UNCHANGED <<backendRunning, panicked>>
       ELSE /\ teardown' = <<"panic">>
            /\ panicked' = TRUE
            /\ ret' = Returned("dispose", "panic")
            /\ UNCHANGED <<backendRunning, backendFd>>
    /\ UNCHANGED <<inner, hasFdProperty, devices, backendStarts, STARTED, cameras,
                   bus_watch, watchAdds, fd, openFds, nextFd, default_cb, notifs,
                   handled, calls, seen>>
    /\ UNCHANGED threadVars
    /\ UNCHANGED <<connected, stack, chooser, spinner, portal, timeout>>
Dispose ==
    /\ teardown = <<>>
    /\ ~panicked
    /\ IF ~inner
       THEN \* self.inner.get().unwrap() panics
            /\ teardown' = <<"panic">>
            /\ panicked' = TRUE
            /\ ret' = Returned("dispose", "panic")
            /\ UNCHANGED <<backendRunning, backendFd>>
       ELSE LET stopped == IF backendRunning THEN <<"stop">> ELSE <<>>
            IN  /\ backendRunning' = FALSE
                /\ IF hasFdProperty
                   THEN /\ backendFd' = -1
                        /\ teardown' = stopped \o <<"set_fd", "finalize">>
                        /\ ret' = Returned("dispose", "Ok")
                        /\ UNCHANGED panicked
                   ELSE \* glib's set_property panics: no such property
                        /\ teardown' = stopped \o <<"panic">>
                        /\ panicked' = TRUE
                        /\ ret' = Returned("dispose", "panic")
                        /\ UNCHANGED backendFd
    /\ UNCHANGED <<inner, hasFdProperty, devices, backendStarts, STARTED, cameras,
                   bus_watch, watchAdds, fd, openFds, nextFd, default_cb, notifs,
                   handled, calls, seen>>
    /\ UNCHANGED threadVars
    /\ UNCHANGED <<connected, stack, chooser, spinner, portal, timeout>>

\* the provider used by its caller and torn down at any moment
NextTeardown == Start \/ SetFd \/ Dispose

SpecTeardown == Init /\ [][NextTeardown]_vars

----------------------------------------------------------------------------
(* The consumer view (widgets::Camera) *)

\* the thread the widgets are constructed on
MainThread == 1

\* imp::Camera::constructed: obtains the provider, connects update_cameras to
\* items-changed, calls it once, then starts the spinner and shows "loading"
Construct ==
    /\ ~connected
    /\ teardown = <<>>
    /\ ~panicked
    /\ instance(MainThread)
    /\ connected' = TRUE
    /\ chooser' = camera_menu_button_stack(n_items)
    /\ spinner' = TRUE
    /\ stack' = "loading"
    /\ UNCHANGED <<inner, hasFdProperty, devices, backendStarts, backendRunning,
                   backendFd, STARTED, cameras, bus_watch, watchAdds, fd, openFds,
                   nextFd, default_cb, notifs, handled, calls, panicked, seen>>
    /\ UNCHANGED <<teardown, portal, timeout>>

\* Camera::start: spawns the startup task, which awaits the descriptor request,
\* and arms the provider timeout
CameraStart ==
    /\ connected
    /\ portal = "none"
    /\ ~panicked
    /\ portal' = "pending"
    /\ timeout' = "armed"
    /\ UNCHANGED providerVars
    /\ UNCHANGED <<teardown, connected, stack, chooser, spinner>>

\* stream().await resolves with a descriptor or with an error
PortalReply ==
    /\ portal = "pending"
    /\ ~panicked
    /\ \E reply \in {"fd", "failed"} : portal' = reply
    /\ UNCHANGED providerVars
    /\ UNCHANGED <<teardown, connected, stack, chooser, spinner, timeout>>

\* where the startup task stands; the task is the only caller of the provider
TaskAt ==
    CASE portal = "none" -> "idle"
      [] portal = "pending" -> "stream"
      [] portal = "fd" /\ calls = 0 -> "set_fd"
      [] portal = "fd" /\ calls = 1 -> "start"
      [] portal = "failed" /\ calls = 0 -> "start"
      [] OTHER -> "done"

\* the task's provider.set_fd(fd), made only in the Ok(fd) arm
TaskSetFd == TaskAt = "set_fd" /\ SetFd

\* the task's provider.start()
TaskStart == TaskAt = "start" /\ Start

\* the callback of glib::timeout_add_local_once; the task runs set_fd and start
\* in one go, so the callback runs before or after them, not in between
Timeout ==
    /\ timeout = "armed"
    /\ ~panicked
    /\ TaskAt \in {"stream", "done"}
    /\ timeout' = "fired"
    /\ IF stack = "loading"
       THEN /\ spinner' = FALSE
            /\ stack' = "not-found"
       ELSE UNCHANGED <<stack, spinner>>
    /\ UNCHANGED providerVars
    /\ UNCHANGED <<teardown, connected, chooser, portal>>

\* the view, its startup task and timeout, and the provider's bus watch
NextView ==
    Construct \/ CameraStart \/ PortalReply \/ TaskSetFd \/ TaskStart \/ Timeout
    \/ BusWatch

SpecView == Init /\ [][NextView]_vars

----------------------------------------------------------------------------
(* Properties *)

Last(s) == s[Len(s)]

\* the entries a step appended to notifs
Emitted == SubSeq(notifs', Len(notifs) + 1, Len(notifs'))

\* the step is a call of start or start_with_default
StartCall == ret'.op = "start"

\* the step is a call of set_fd
SetFdCall == ret'.op = "set_fd"

\* the step is the watch callback handling a message of this kind
HandledKind(kind) == ret'.op = "handle_message" /\ ret'.msg.kind = kind

\* a start call has completed the whole startup
StartSucceeded == bus_watch

\* the indices of the entries whose identity is that of device d
Matching(d) == {i \in 1..Len(cameras) : target_object(cameras[i]) = TargetObject(d)}

FailedStart == ret.op = "start" /\ ret.res \in {"MissingPlugin", "BackendError"}

\* C1: after a start call that failed (MissingPlugin or a backend start error)
\* the latch is still unset, so that a later start performs the startup again.
C1_LatchUnsetAfterFailedStart == FailedStart => ~STARTED

\* C2: a start call made after a start that succeeded returns Ok and changes
\* nothing: the backend is not started again, the list, the notifications, the
\* watch and the selector are unchanged; the bus watch is registered at most once.
C2_StartIdempotent ==
    /\ [](watchAdds <= 1)
    /\ [][(StartSucceeded /\ StartCall) =>
            /\ ret'.res = "Ok"
            /\ UNCHANGED <<backendStarts, backendRunning, STARTED, cameras, notifs,
                           bus_watch, watchAdds, default_cb, fd, backendFd, panicked>>]_vars

\* a start call returned after the watch had already delivered a message
C2_Witness ==
    /\ ret = Returned("start", "Ok")
    /\ handled >= 1
    /\ Len(cameras) >= 1

\* C3: the camera list never holds two entries with equal identity (equal
\* target-object reference).
C3_NoDuplicates ==
    \A i, j \in 1..Len(cameras) :
        target_object(cameras[i]) = target_object(cameras[j]) => i = j

\* a DeviceAdded for a device already in the list was handled and added nothing
C3_Witness ==
    /\ ret.op = "handle_message"
    /\ ret.msg.kind = "DeviceAdded"
    /\ ret.msg.dev # NoDevice
    /\ Cardinality(Matching(ret.msg.dev)) = 1
    /\ Last(notifs) # emit_camera_added(Camera_new(ret.msg.dev))

\* C4: no entry of the camera list is a device tagged infrared, whether it came
\* from the initial snapshot or from a DeviceAdded message.
C4_NoInfraredEntry ==
    \A i \in 1..Len(cameras) : ~is_infrared(device(cameras[i]))

\* C5: every entry of the camera list has device class "Video/Source".
C5_OnlyVideoSource ==
    \A i \in 1..Len(cameras) : DeviceClass(device(cameras[i])) = "Video/Source"

\* the snapshot held a device of another class, a DeviceAdded delivered one too
C5_Witness ==
    /\ \E i \in 1..Len(devices) : DeviceClass(devices[i]) # "Video/Source"
    /\ ret.op = "handle_message"
    /\ ret.msg.kind = "DeviceAdded"
    /\ ret.msg.dev # NoDevice
    /\ DeviceClass(ret.msg.dev) # "Video/Source"
    /\ Len(cameras) >= 1

\* C6: a DeviceRemoved for a Video/Source device whose identity matches the entry
\* at position p removes exactly that entry, emits items_changed(p, 1, 0) as its
\* only list-changed notification, and leaves the other entries in order.
C6_RemoveAtPosition ==
    [][\A p \in 1..Len(cameras) :
          (/\ HandledKind("DeviceRemoved")
           /\ ret'.msg.dev # NoDevice
           /\ DeviceClass(ret'.msg.dev) = "Video/Source"
           /\ p \in Matching(ret'.msg.dev))
          => /\ cameras' = RemoveAt(cameras, p)
             /\ Len(cameras') = Len(cameras) - 1
             /\ Len(Emitted) >= 1
             /\ Emitted[1] = items_changed(p - 1, 1, 0)
             /\ \A k \in 2..Len(Emitted) : Emitted[k].kind # "items_changed"]_vars

\* a removal from a position other than the first one has happened
C6_Witness ==
    /\ ret.op = "handle_message"
    /\ ret.msg.kind = "DeviceRemoved"
    /\ Len(notifs) >= 2
    /\ notifs[Len(notifs) - 1].kind = "items_changed"
    /\ notifs[Len(notifs) - 1].removed = 1
    /\ notifs[Len(notifs) - 1].pos >= 1
    /\ Len(cameras) >= 1

\* C7: a DeviceRemoved for a device whose identity matches no entry leaves the
\* list unchanged, emits nothing, raises no error and keeps the watch active.
C7_RemoveUnknown ==
    [][(/\ HandledKind("DeviceRemoved")
        /\ ret'.msg.dev # NoDevice
        /\ Matching(ret'.msg.dev) = {})
       => /\ cameras' = cameras
          /\ notifs' = notifs
          /\ ret'.res = "Continue"
          /\ bus_watch'
          /\ ~panicked']_vars

\* a DeviceRemoved for a Video/Source device that is not in a non-empty list
C7_Witness ==
    /\ ret.op = "handle_message"
    /\ ret.msg.kind = "DeviceRemoved"
    /\ ret.msg.dev # NoDevice
    /\ DeviceClass(ret.msg.dev) = "Video/Source"
    /\ Matching(ret.msg.dev) = {}
    /\ Len(cameras) >= 1
    /\ Last(notifs).kind # "camera_removed"

\* C8: a DeviceAdded for a Video/Source, non-infrared device not yet in a list of
\* length L appends the camera at position L, then emits items_changed(L, 0, 1),
\* then one camera-added event carrying that camera.
C8_AddAppends ==
    [][(/\ HandledKind("DeviceAdded")
        /\ ret'.msg.dev # NoDevice
        /\ DeviceClass(ret'.msg.dev) = "Video/Source"
        /\ ~is_infrared(ret'.msg.dev)
        /\ Matching(ret'.msg.dev) = {})
       => /\ cameras' = Append(cameras, Camera_new(ret'.msg.dev))
          /\ Emitted = <<items_changed(Len(cameras), 0, 1),
                         emit_camera_added(Camera_new(ret'.msg.dev))>>]_vars

\* a camera was appended to a non-empty list
C8_Witness ==
    /\ ret.op = "handle_message"
    /\ ret.msg.kind = "DeviceAdded"
    /\ Len(cameras) >= 2
    /\ Last(notifs) = emit_camera_added(Last(cameras))
    /\ device(Last(cameras)) = ret.msg.dev

\* the devices of the snapshot that pass the class filter, in backend order
VideoDevices == SelectSeq(devices, LAMBDA d : DeviceClass(d) = "Video/Source")

\* C9: a successful first start replaces the whole list by the filtered snapshot
\* in backend order, then emits exactly one list-changed notification
\* (0, old length, new length).
C9_SnapshotReplace ==
    [][(StartCall /\ ~STARTED /\ ret'.res = "Ok")
       => /\ cameras' = [i \in 1..Len(VideoDevices) |-> Camera_new(VideoDevices[i])]
          /\ Len(Emitted) >= 1
          /\ Emitted[1] = items_changed(0, Len(cameras), Len(cameras'))
          /\ \A k \in 2..Len(Emitted) : Emitted[k].kind # "items_changed"]_vars

\* a first start has just applied a snapshot from which a device was filtered out
C9_Witness ==
    /\ ret = Returned("start", "Ok")
    /\ handled = 0
    /\ notifs = <<items_changed(0, 0, Len(cameras)), notify_started>>
    /\ Len(cameras) >= 1
    /\ Len(devices) > Len(cameras)

\* C10: set_fd called after start has completed returns ProvidedStarted and changes
\* neither the stored descriptor nor the backend's fd property; the stored
\* descriptor is only ever assigned while the latch is unset.
C10_FdGatedByLatch ==
    /\ [][(SetFdCall /\ StartSucceeded) =>
            /\ ret'.res = "ProvidedStarted"
            /\ UNCHANGED <<fd, backendFd, openFds>>]_vars
    /\ [][fd' # fd => ~STARTED]_vars

\* set_fd was refused after a start that followed an accepted descriptor
C10_Witness ==
    /\ ret = Returned("set_fd", "ProvidedStarted")
    /\ StartSucceeded
    /\ fd # 0
    /\ backendFd = fd

\* the descriptor the last set_fd call was given
PassedFd == nextFd - 1

C12_OneOpenDescriptor ==
    /\ Cardinality(openFds) <= 1
    /\ openFds = IF fd = 0 THEN {} ELSE {fd}
    /\ fd # 0 => backendFd = fd
    /\ ret = Returned("set_fd", "Ok") => fd = PassedFd

\* two set_fd calls have succeeded before start
C12_Witness ==
    /\ ~STARTED
    /\ ret = Returned("set_fd", "Ok")
    /\ fd = 2
    /\ openFds = {2}

\* the number of entries of a sequence of notifications that are of this kind
CountKind(s, kind) == Cardinality({k \in 1..Len(s) : s[k].kind = kind})

\* C13: a first start call that fails returns the error to the caller
\* (MissingPlugin when no backend handle was obtained at construction, otherwise
\* the backend's start error), leaves the camera list empty, registers no bus
\* watch and emits no list-changed and no started notification.
C13_FailedStartLeavesNothing ==
    [][(StartCall /\ ~STARTED) =>
          /\ ~inner => ret'.res = "MissingPlugin"
          /\ inner => ret'.res \in {"Ok", "BackendError"}
          /\ ret'.res # "Ok" =>
                /\ cameras' = <<>>
                /\ ~bus_watch'
                /\ watchAdds' = 0
                /\ Emitted = <<>>
                /\ ~backendRunning'
                /\ ~panicked']_vars

\* a first start has failed with the backend's error, a descriptor being stored
C13_Witness ==
    /\ ret = Returned("start", "BackendError")
    /\ backendStarts = 1
    /\ fd # 0
    /\ Len(devices) >= 1

\* C14: start is transactional: whenever is_started() is true the snapshot has
\* been applied and the bus watch is registered, and after a start call that
\* returned an error none of snapshot, watch and latch has been committed.
C14_StartTransactional ==
    /\ STARTED => (bus_watch /\ CountKind(notifs, "items_changed") >= 1)
    /\ FailedStart => (~STARTED /\ ~bus_watch /\ notifs = <<>>)

\* C15: is_started() is a one-way latch: it never goes from true back to false,
\* and the started notification is emitted at most once.
C15_LatchOneWay ==
    /\ [][STARTED => STARTED']_vars
    /\ [](CountKind(notifs, "notify_started") <= 1)
    /\ [](CountKind(notifs, "notify_started") = 1 => STARTED)

\* the latch is still set after start, a further start, a set_fd and a message
C15_Witness ==
    /\ STARTED
    /\ CountKind(notifs, "notify_started") = 1
    /\ calls = MaxCalls
    /\ handled >= 1
    /\ ret = Returned("start", "Ok")

CameraEvents == {"camera_added", "camera_removed"}

\* the list-changed notification of the snapshot replacement of start
SnapshotNotification == items_changed(0, 0, Len(VideoDevices))

\* C16: the snapshot-replace list-changed notification of start precedes every
\* incremental list-changed notification and every camera-added or
\* camera-removed event; no bus message is handled before the snapshot is applied.
C16_SnapshotFirst ==
    /\ handled > 0 => (notifs # <<>> /\ bus_watch)
    /\ notifs # <<>> => notifs[1] = SnapshotNotification
    /\ \A k \in 1..Len(notifs) :
          notifs[k].kind \in CameraEvents =>
              /\ k >= 3
              /\ notifs[k - 1].kind = "items_changed"

\* a camera was removed after a snapshot of two cameras
C16_Witness ==
    /\ Len(notifs) >= 4
    /\ notifs[1] = items_changed(0, 0, 2)
    /\ notifs[4].kind = "camera_removed"

\* C17: add and remove notifications are emitted in the order the backend
\* delivered the messages: the handling of one message appends to what was
\* emitted before at most one list-changed notification and at most one
\* camera-added/removed event, both for the device of that message, and no other
\* operation emits such an event.
C17_DeliveryOrder ==
    [][/\ SubSeq(notifs', 1, Len(notifs)) = notifs
       /\ ret'.op # "handle_message" => CountKind(Emitted, "camera_added")
                                          + CountKind(Emitted, "camera_removed") = 0
       /\ ret'.op = "handle_message" =>
             /\ handled' = handled + 1
             /\ \/ Emitted = <<>>
                \/ /\ Len(Emitted) = 2
                   /\ Emitted[1].kind = "items_changed"
                   /\ ret'.msg.kind = "DeviceAdded" => Emitted[2].kind = "camera_added"
                   /\ ret'.msg.kind = "DeviceRemoved" => Emitted[2].kind = "camera_removed"
                   /\ ret'.msg.kind \in {"DeviceAdded", "DeviceRemoved"}
                   /\ device(Emitted[2].camera) = ret'.msg.dev]_vars

\* an add and then a removal were notified, in that order
C17_Witness ==
    /\ handled = 2
    /\ Len(notifs) = 6
    /\ notifs[4].kind = "camera_added"
    /\ notifs[6].kind = "camera_removed"
    /\ ret.msg.kind = "DeviceRemoved"

\* a consumer's mirror m after it applied the list-changed notification n,
\* taking the added items from the model
ApplyNotification(m, n, model) ==
    SubSeq(m, 1, n.pos) \o SubSeq(model, n.pos + 1, n.pos + n.added)
        \o SubSeq(m, n.pos + n.removed + 1, Len(m))

ListChanges(s) == SelectSeq(s, LAMBDA n : n.kind = "items_changed")

\* C18: every mutation of the camera list is reported by exactly one
\* list-changed notification that describes it: a mirror equal to the list
\* before a step and updated by the step's notification equals the list after
\* it (the mirror starts empty, as the list does), so its length is n_items.
C18_MirrorFollowsList ==
    [][LET changes == ListChanges(Emitted)
       IN  /\ Len(changes) <= 1
           /\ cameras' # cameras => Len(changes) = 1
           /\ Len(changes) = 0 => cameras' = cameras
           /\ Len(changes) = 1 =>
                 /\ ApplyNotification(cameras, changes[1], cameras') = cameras'
                 /\ Len(cameras) - changes[1].removed + changes[1].added
                      = Len(cameras')]_vars

\* a removal and then an add were notified, leaving two cameras
C18_Witness ==
    /\ handled = 2
    /\ Len(notifs) = 6
    /\ notifs[4].kind = "camera_removed"
    /\ notifs[6].kind = "camera_added"
    /\ Len(cameras) = 2

\* the positions of the cameras the stored default selector answers true for
Selected == {i \in 1..Len(cameras) : device(cameras[i]) \in default_cb}

\* C19: default_camera() returns the first camera in list order for which the
\* stored default-selector predicate holds, and none when no predicate is stored
\* (start never succeeded), when the predicate is the always-false one of plain
\* start, or when no entry matches; it changes no provider state.
C19_DefaultCamera ==
    [][ret'.op = "default_camera" =>
          /\ UNCHANGED <<inner, hasFdProperty, devices, backendStarts, backendRunning,
                         backendFd, STARTED, cameras, bus_watch, watchAdds, fd,
                         openFds, nextFd, default_cb, notifs, handled, calls,
                         panicked, threadVars>>
          /\ ~StartSucceeded => ret'.res = "None"
          /\ default_cb = AlwaysFalse => ret'.res = "None"
          /\ Selected = {} => ret'.res = "None"
          /\ ret'.res = "None" => ret'.cam = NoCamera
          /\ (StartSucceeded /\ Selected # {}) =>
                /\ ret'.res = "Some"
                /\ \E i \in Selected :
                      /\ ret'.cam = cameras[i]
                      /\ \A j \in Selected : i <= j]_vars

\* default_camera() skipped the first camera and returned the second one
C19_Witness ==
    /\ ret.op = "default_camera"
    /\ ret.res = "Some"
    /\ Len(cameras) = 2
    /\ ret.cam = cameras[2]
    /\ handled >= 1

\* C20: the singleton is usable only on the thread that first created it:
\* instance() called on any other thread yields no reference, so at most one
\* thread ever holds a reference to the provider.
C20_ThreadConfined ==
    /\ refs \subseteq {owner}
    /\ Cardinality(refs) <= 1
    /\ instanceCalls # {} => owner \in instanceCalls
    /\ \A t \in instanceCalls : t \in refs <=> t = owner
    /\ (ret.op = "instance" /\ ret.res = "panic") => instanceCalls \ {owner} # {}

\* every thread has called instance() and the owner has used the provider
C20_Witness ==
    /\ instanceCalls = Threads
    /\ refs = {owner}
    /\ owner # 1
    /\ STARTED
    /\ ret = Returned("instance", "panic")

\* C22: when handling a DeviceRemoved message emits a camera-removed event, the
\* camera the event carries is the entry that was at the position reported by
\* the list-changed notification emitted just before it, that entry is the one
\* removed, and the camera is in the list no longer.
C22_RemovedEventCarriesEntry ==
    [][(/\ HandledKind("DeviceRemoved")
        /\ \E k \in 1..Len(Emitted) : Emitted[k].kind = "camera_removed")
       => /\ Len(Emitted) = 2
          /\ Emitted[1].kind = "items_changed"
          /\ Emitted[2].kind = "camera_removed"
          /\ Emitted[1].pos + 1 \in 1..Len(cameras)
          /\ cameras[Emitted[1].pos + 1] = Emitted[2].camera
          /\ cameras' = RemoveAt(cameras, Emitted[1].pos + 1)
          /\ \A i \in 1..Len(cameras') : cameras'[i] # Emitted[2].camera]_vars

\* the first of several entries has been removed and its event emitted
C22_Witness ==
    /\ ret.op = "handle_message"
    /\ ret.msg.kind = "DeviceRemoved"
    /\ Len(notifs) >= 2
    /\ Last(notifs).kind = "camera_removed"
    /\ device(Last(notifs).camera) = ret.msg.dev
    /\ notifs[Len(notifs) - 1] = items_changed(0, 1, 0)
    /\ Len(cameras) >= 1

\* the messages handle_message is to ignore: Error, other kinds, a device of
\* another class, a DeviceAdded for an identity the list already holds
Ignored(msg) ==
    \/ msg.kind \in {"Error", "Other"}
    \/ /\ msg.kind \in {"DeviceAdded", "DeviceRemoved"}
       /\ msg.dev # NoDevice
       /\ DeviceClass(msg.dev) # "Video/Source"
    \/ /\ msg.kind = "DeviceAdded"
       /\ msg.dev # NoDevice
       /\ Matching(msg.dev) # {}

\* C23: handling an ignored message leaves the camera list, the stored
\* descriptor and the latch unchanged, emits nothing, and the watch callback
\* returns Continue with the watch still registered.
C23_IgnoredMessageNoEffect ==
    [][(ret'.op = "handle_message" /\ Ignored(ret'.msg))
       => /\ cameras' = cameras
          /\ fd' = fd
          /\ openFds' = openFds
          /\ backendFd' = backendFd
          /\ STARTED' = STARTED
          /\ notifs' = notifs
          /\ ret'.res = "Continue"
          /\ bus_watch'
          /\ ~panicked']_vars

\* a DeviceAdded for a device already in the list was handled after another
\* ignored message, and nothing was emitted since startup
C23_Witness ==
    /\ ret.op = "handle_message"
    /\ ret.msg.kind = "DeviceAdded"
    /\ ret.msg.dev # NoDevice
    /\ Matching(ret.msg.dev) # {}
    /\ handled = 2
    /\ Last(notifs).kind = "notify_started"
    /\ bus_watch

\* C24: default_cb is set at most once; the startup that registers the watch
\* stores the predicate of its call, and a start call made once the latch is
\* set leaves default_cb and the result of default_camera() as they were.
C24_SelectorSetOnce ==
    [][/\ default_cb # NoSelector => default_cb' = default_cb
       /\ (StartCall /\ is_completed)
          => (default_cb' = default_cb /\ default_camera' = default_camera)
       /\ (StartCall /\ ~bus_watch /\ bus_watch')
          => \A f \in Selectors : start_with_default(f) => default_cb' = f]_vars

\* a start call was made after the startup that stored a predicate selecting a
\* camera of the list, and the list has changed since
C24_Witness ==
    /\ ret = Returned("start", "Ok")
    /\ calls >= 2
    /\ handled >= 1
    /\ default_cb \in Selectors \ {AlwaysFalse}
    /\ default_camera # NoCamera

\* C27: set_fd on a provider without a backend handle returns a Result to its
\* caller and does not panic.
C27_SetFdWithoutBackendReturns ==
    (ret.op = "set_fd" /\ ~inner)
    => (ret.res \in {"Ok", "OldVersion", "ProvidedStarted"} /\ ~panicked)

C25_TaskReachesStart ==
    /\ ret.op = "set_fd" => (portal = "fd" /\ ret.res # "ProvidedStarted")
    /\ (portal \in {"fd", "failed"} /\ ~ENABLED (TaskSetFd \/ TaskStart))
       => STARTED

TimeoutKeepsCamera ==
    [][(timeout = "armed" /\ timeout' = "fired")
       => /\ stack' \in {"camera", "not-found"}
          /\ stack # "loading" => stack' = stack]_vars

C29_ViewFollowsList ==
    connected
    => /\ stack \in {"loading", "camera", "not-found"}
       /\ stack # "loading" => /\ stack = "camera" <=> n_items > 0
                               /\ stack = "not-found" <=> n_items = 0
       /\ n_items \in {0, 1} => chooser = "fake-widget"
       /\ n_items = 2 => chooser = "camera_switch_button"
       /\ n_items >= 3 => chooser = "camera_menu_button"

\* the view shows the camera page and the menu button for three cameras
C29_Witness ==
    /\ connected
    /\ n_items >= 3
    /\ stack = "camera"
    /\ chooser = "camera_menu_button"

====
